---- MODULE Spec2Model ----
(***************************************************************************)
(* Model of the asynchronous image-processing pipeline of the image        *)
(* tagger: the Celery task process_image (app/tasks/image_processing.py),  *)
(* the stale-upload sweep cleanup_failed_uploads, the upload handler that  *)
(* creates records and enqueues jobs, the blob store and the three         *)
(* MongoDB collections images, tags and image_tags.                        *)
(*                                                                         *)
(* Every database or blob-store call of a handler is one atomic step, so   *)
(* that two workers, or a worker and the sweep, interleave between calls   *)
(* exactly as two processes talking to MongoDB and MinIO do.               *)
(*                                                                         *)
(* ServeSpec is the serving layer as several users drive it (routers       *)
(* images.py, search.py, albums.py): records with their owner and storage  *)
(* key, tags, albums, one request per step.                                *)
(***************************************************************************)
EXTENDS Integers, Sequences, FiniteSets, TLC

\* ---------------------------------------------------------------- bounds
MaxImages == 1
NumWorkers == 2
MaxRedeliver == 1
MaxCrash == 1
MaxRequests == 1
MaxDupImages == 4
MaxThreshold == 2
MaxDetections == 3
MaxRecords == 2
MaxKeys == 2
MaxAlbums == 1

\* ------------------------------------------------------ program constants
\* @celery_app.task(..., max_retries=3)
max_retries == 3

\* self.retry(exc=e, countdown=60 * (self.request.retries + 1))
RetrySeed == 60

\* hamming_distance: return 999 on error
ErrorDistance == 999

\* similarity_score: max_distance = 64
max_distance == 64

\* find_duplicates: threshold: int = 8
DefaultThreshold == 8

ImageIds == 1..MaxImages
Workers == 1..NumWorkers
\* the retry counts a message can carry; one more than the ceiling, so that a
\* retry scheduled beyond the ceiling would be a message of the model
Retries == 0..max_retries + 1

\* result of extract_unique_labels on what the detector returned: a list of
\* {label, confidence} sorted by descending confidence (confidence in 1/1000)
DetectOutcomes ==
  { << >>,
    << [label |-> "cat", confidence |-> 900] >> }

\* the tag_name a client passes to add_custom_tag
TagNames == {"Cat"}

\* what the bytes stored under an original key decode to
Contents == {"valid", "corrupt"}

VARIABLES
  images,      \* db.images: image id -> document ("absent" = no document)
  tags,        \* db.tags: the names that have a tag document (unique index)
  image_tags,  \* db.image_tags: associations keyed by (image_id, tag)
  store,       \* the blob store: key -> stored content ("none" = no object)
  queue,       \* the broker: <<image_id, retries>> -> number of messages
  worker,      \* per worker: position in process_image and its locals
  reaper,      \* cleanup_failed_uploads: position and the cursor's documents
  nextId,      \* the next image id an insert will assign
  old,         \* image id -> created_at is more than 30 minutes ago
  execs,       \* image id -> number of executions of process_image begun
  redelivered, \* image id -> number of messages the broker delivered again
  crashed,     \* image id -> number of executions killed mid-job
  failures,    \* image id -> number of executions that ended in the handler
  client,      \* the API request being served: position and the handler's locals
  served,      \* number of add_custom_tag / delete_image requests begun
  countdown,   \* <<image_id, retries>> -> countdown of the retry published
  dup,         \* a find_duplicates request: the documents read, the threshold
               \* and the groups returned
  call,        \* a call of hamming_distance / similarity_score or of
               \* extract_unique_labels: its arguments and what it returned
  uploaded_images, \* image id -> whether the response of upload_images
               \* lists the file ("listed"), skipped it after an exception
               \* ("skipped"), or no upload_images handled it ("none")
  shared       \* the collections and the bucket as the handlers of several
               \* users read and write them: images with their owner and
               \* storage key, tags, image_tags, albums, album_images, blobs

vars == << images, tags, image_tags, store, queue, worker, reaper, nextId,
           old, execs, redelivered, crashed, failures, client, served,
           countdown, dup, call, uploaded_images, shared >>

NoDoc ==
  [status |-> "absent", error |-> "none", processed_at |-> FALSE,
   metadata |-> FALSE, phash |-> "absent", thumbnail_key |-> FALSE,
   tag_count |-> -1, tag_strings |-> {}]

\* image_doc built by upload_images
PendingDoc == [NoDoc EXCEPT !.status = "pending"]

\* image_doc built by ingest_image
IngestDoc == [NoDoc EXCEPT !.status = "completed"]

OrigKey(i) == << "orig", i >>
ThumbKey(i) == << "thumbnails", i >>
Keys == { OrigKey(i) : i \in ImageIds } \cup { ThumbKey(i) : i \in ImageIds }

IdleWorker ==
  [pc |-> "idle", image_id |-> 0, retries |-> 0, thumb_key |-> FALSE,
   phash |-> "absent", unique_labels |-> << >>, tag_count |-> 0, tag_found |-> FALSE,
   hash_failed |-> FALSE, detect_raised |-> FALSE, exc |-> "none"]

IdleReaper == [pc |-> "idle", found |-> {}]

IdleClient ==
  [pc |-> "idle", image_id |-> 0, tag_name |-> "none", tag_found |-> FALSE,
   thumbnail_key |-> FALSE]

Exists(i) == images[i].status # "absent"

\* no find_duplicates request
NoDup ==
  [images |-> << >>, threshold |-> 0, groups |-> << >>, scores |-> << >>,
   done |-> TRUE]

\* no call in progress
NoCall ==
  [op |-> "none", hash1 |-> << >>, hash2 |-> << >>, detections |-> << >>,
   raised |-> FALSE, distance |-> 0, similarity |-> 0,
   unique_labels |-> << >>, done |-> TRUE]

\* the users of the deployment
Users == {"alice", "bob"}
RecordIds == 1..MaxRecords
AlbumIds == 1..MaxAlbums

\* the storage keys: generate_key returns "<user_id>/<uuid>.<ext>", modelled
\* as the pair of the prefix and a serial number
StorageKeys == Users \X (1..MaxKeys)

NoImage ==
  [user_id |-> "none", storage_key |-> << "none", 0 >>, status |-> "absent",
   phash |-> FALSE]

NoShared ==
  [images |-> [i \in RecordIds |-> NoImage],
   nextId |-> 1,
   nextKey |-> 1,
   blobs |-> {},
   tags |-> {},
   image_tags |-> {},
   albums |-> [a \in AlbumIds |-> "none"],
   album_images |-> [e \in AlbumIds \X RecordIds |-> 0]]

Init ==
  /\ images = [i \in ImageIds |-> NoDoc]
  /\ tags = {}
  /\ image_tags = {}
  /\ store = [k \in Keys |-> "none"]
  /\ queue = [m \in ImageIds \X Retries |-> 0]
  /\ worker = [w \in Workers |-> IdleWorker]
  /\ reaper = IdleReaper
  /\ nextId = 1
  /\ old = [i \in ImageIds |-> FALSE]
  /\ execs = [i \in ImageIds |-> 0]
  /\ redelivered = [i \in ImageIds |-> 0]
  /\ crashed = [i \in ImageIds |-> 0]
  /\ failures = [i \in ImageIds |-> 0]
  /\ client = IdleClient
  /\ served = 0
  /\ countdown = [m \in ImageIds \X Retries |-> 0]
  /\ dup = NoDup
  /\ call = NoCall
  /\ uploaded_images = [i \in ImageIds |-> "none"]
  /\ shared = NoShared

\* --------------------------------------------------------------- helpers
\* str.lower() on the tag names the model uses
Lower(name) ==
  CASE name = "Cat" -> "cat"
    [] name = "Dog" -> "dog"
    [] OTHER -> name

\* update_one({"_id": i}, {"$set": fields}): changes the document when there
\* is one and is a no-op when the filter matches nothing
UpdateOne(i, doc) == IF Exists(i) THEN [images EXCEPT ![i] = doc] ELSE images

\* update_one(..., upsert=True) on image_tags, whose key is (image_id, tag_id)
Upsert(assocs, i, tag, src, conf) ==
  { a \in assocs : ~(a.image_id = i /\ a.tag = tag) }
    \cup { [image_id |-> i, tag |-> tag, source |-> src, confidence |-> conf] }

\* storage.download_file: the bytes, or None on S3Error (also a missing key)
download_file(key, s3error) ==
  IF s3error \/ store[key] = "none" THEN "none" ELSE store[key]

\* compute_phash returning a default hash string instead of None on failure
compute_phash_Sentinel(raised) == "hex"

\* compute_phash: the hex string, or None when anything inside raised
compute_phash(raised) == IF raised THEN "null" ELSE "hex"

\* YOLODetector.detect_objects followed by extract_unique_labels: an
\* exception during inference is caught inside detect_objects, which then
\* returns the empty list
detect_objects(raised, dets) == IF raised THEN << >> ELSE dets

\* a retry countdown that does not grow with the retry count
retry_countdown_Flat(retries) == RetrySeed

\* countdown=60 * (self.request.retries + 1)
retry_countdown(retries) == RetrySeed * (retries + 1)

QueueTotal(i) ==
  LET RECURSIVE Sum(_)
      Sum(r) == IF r < 0 THEN 0 ELSE queue[<< i, r >>] + Sum(r - 1)
  IN Sum(max_retries + 1)

Total(f) ==
  LET RECURSIVE Sum(_)
      Sum(i) == IF i = 0 THEN 0 ELSE f[i] + Sum(i - 1)
  IN Sum(MaxImages)

\* ------------------------------------------------------- upload_images
\* what can raise inside the try block of one file of upload_images:
\* nothing, storage.upload_file returning False, images.insert_one, or
\* process_image.delay
UploadFaults == {"none", "upload_file", "insert_one", "delay"}

\* one file of upload_images: store the blob, insert the pending document,
\* process_image.delay(image_id), append the file to the response; an
\* exception at any of the calls is logged and the loop continues with the
\* next file, leaving what the earlier calls wrote
upload_images(content, fault) ==
  /\ nextId <= MaxImages
  /\ store' = IF fault = "upload_file" THEN store
              ELSE [store EXCEPT ![OrigKey(nextId)] = content]
  /\ images' = IF fault \in {"upload_file", "insert_one"} THEN images
               ELSE [images EXCEPT ![nextId] = PendingDoc]
  /\ queue' = IF fault = "none"
              THEN [queue EXCEPT ![<< nextId, 0 >>] = @ + 1]
              ELSE queue
  /\ uploaded_images' =
       [uploaded_images EXCEPT
          ![nextId] = IF fault = "none" THEN "listed" ELSE "skipped"]
  /\ nextId' = nextId + 1
  /\ UNCHANGED << tags, image_tags, worker, reaper, old, execs, redelivered,
                  crashed,
                  failures, client, served, countdown,
                  dup,
                  call, shared >>

\* ingest_image: the client has (or has not) put the bytes under the key of a
\* presigned URL; the handler inserts a document for that key, marked
\* completed, and enqueues nothing
ingest_image(content) ==
  /\ nextId <= MaxImages
  /\ store' = [store EXCEPT ![OrigKey(nextId)] = content]
  /\ images' = [images EXCEPT ![nextId] = IngestDoc]
  /\ nextId' = nextId + 1
  /\ UNCHANGED << tags, image_tags, queue, worker, reaper, old, execs,
                  redelivered, crashed,
                  failures, client, served, countdown,
                  dup,
                  call,
                  uploaded_images, shared >>

\* get_image_url answering a thumbnail request with the thumbnail key whether
\* or not the document has one
get_image_url_NoFallback(i, thumbnail) ==
  IF ~Exists(i) THEN << "not_found", i >>
  ELSE IF thumbnail THEN ThumbKey(i)
  ELSE OrigKey(i)

\* get_image_url: the key the presigned URL is issued for
get_image_url(i, thumbnail) ==
  IF ~Exists(i) THEN << "not_found", i >>
  ELSE IF thumbnail /\ images[i].thumbnail_key THEN ThumbKey(i)
  ELSE OrigKey(i)

\* time passes: the document's created_at falls behind the 30 minute threshold
Tick(i) ==
  /\ Exists(i)
  /\ ~old[i]
  /\ old' = [old EXCEPT ![i] = TRUE]
  /\ UNCHANGED << images, tags, image_tags, store, queue, worker, reaper,
                  nextId, execs, redelivered, crashed,
                  failures, client, served, countdown,
                  dup,
                  call,
                  uploaded_images, shared >>

\* ------------------------------------------------------------ the broker
\* at-least-once delivery: the broker hands out a message a second time
Redeliver(i, r) ==
  /\ queue[<< i, r >>] > 0
  /\ Total(redelivered) < MaxRedeliver
  /\ queue' = [queue EXCEPT ![<< i, r >>] = @ + 1]
  /\ redelivered' = [redelivered EXCEPT ![i] = @ + 1]
  /\ UNCHANGED << images, tags, image_tags, store, worker, reaper, nextId,
                  old, execs, crashed,
                  failures, client, served, countdown,
                  dup,
                  call,
                  uploaded_images, shared >>

\* ---------------------------------------------------------- process_image
\* a worker receives a message and runs the first statement of the task:
\* the unconditional update_one that sets status = "processing"
StartJob(w, i, r) ==
  /\ worker[w].pc = "idle"
  /\ queue[<< i, r >>] > 0
  /\ queue' = [queue EXCEPT ![<< i, r >>] = @ - 1]
  /\ images' = UpdateOne(i, [images[i] EXCEPT !.status = "processing"])
  /\ worker' = [worker EXCEPT ![w] =
                  [IdleWorker EXCEPT !.pc = "find_one", !.image_id = i,
                                     !.retries = r]]
  /\ execs' = [execs EXCEPT ![i] = @ + 1]
  /\ UNCHANGED << tags, image_tags, store, reaper, nextId, old, redelivered,
                  crashed,
                  failures, client, served, countdown,
                  dup,
                  call,
                  uploaded_images, shared >>

\* image_doc = db.images.find_one(...); raise when there is none
FindOne(w) ==
  /\ worker[w].pc = "find_one"
  /\ worker' = [worker EXCEPT ![w] =
                  IF Exists(worker[w].image_id)
                  THEN [@ EXCEPT !.pc = "download"]
                  ELSE [@ EXCEPT !.pc = "except", !.exc = "not_found"]]
  /\ UNCHANGED << images, tags, image_tags, store, queue, reaper, nextId,
                  old, execs, redelivered, crashed,
                  failures, client, served, countdown,
                  dup,
                  call,
                  uploaded_images, shared >>

\* storage.download_file, then Image.open / verify / reopen on the bytes
Download(w, s3error) ==
  /\ worker[w].pc = "download"
  /\ LET data == download_file(OrigKey(worker[w].image_id), s3error)
     IN worker' = [worker EXCEPT ![w] =
          CASE data = "none" ->
                 [@ EXCEPT !.pc = "except", !.exc = "download_failed"]
            [] data = "corrupt" ->
                 [@ EXCEPT !.pc = "except", !.exc = "invalid_image"]
            [] OTHER -> [@ EXCEPT !.pc = "upload_thumb"]]
  /\ UNCHANGED << images, tags, image_tags, store, queue, reaper, nextId,
                  old, execs, redelivered, crashed,
                  failures, client, served, countdown,
                  dup,
                  call,
                  uploaded_images, shared >>

\* the analysis step storing the thumbnail under the key of the original
UploadThumbAndAnalyse_ClobbersOriginal(w, thumb_success, hash_raised, detect_raised, dets) ==
  /\ worker[w].pc = "upload_thumb"
  /\ store' = IF thumb_success
              THEN [store EXCEPT ![OrigKey(worker[w].image_id)] = "thumb"]
              ELSE store
  /\ worker' = [worker EXCEPT ![w] =
       [@ EXCEPT !.pc = "final", !.thumb_key = thumb_success,
                 !.phash = compute_phash(hash_raised)]]
  /\ UNCHANGED << images, tags, image_tags, queue, reaper, nextId, old,
                  execs, redelivered, crashed, failures, client, served,
                  countdown,
                  dup,
                  call,
                  uploaded_images, shared >>

\* storage.upload_file of the thumbnail (False on S3Error: thumb_key = None),
\* then compute_phash, detect_objects and extract_unique_labels on the
\* temporary file
UploadThumbAndAnalyse(w, thumb_success, hash_raised, detect_raised, dets) ==
  /\ worker[w].pc = "upload_thumb"
  /\ store' = IF thumb_success
              THEN [store EXCEPT ![ThumbKey(worker[w].image_id)] = "thumb"]
              ELSE store
  /\ LET unique_labels == detect_objects(detect_raised, dets)
     IN worker' = [worker EXCEPT ![w] =
          [@ EXCEPT !.pc = IF unique_labels = << >> THEN "final"
                           ELSE "find_tag",
                    !.thumb_key = thumb_success,
                    !.phash = compute_phash(hash_raised),
                    !.hash_failed = hash_raised,
                    !.detect_raised = detect_raised,
                    !.unique_labels = unique_labels]]
  /\ UNCHANGED << images, tags, image_tags, queue, reaper, nextId, old,
                  execs, redelivered, crashed,
                  failures, client, served, countdown,
                  dup,
                  call,
                  uploaded_images, shared >>

\* label_info of the running iteration of "for label_info in unique_labels"
CurrentLabel(w) == worker[w].unique_labels[worker[w].tag_count + 1]

\* tag = db.tags.find_one({"name": label.lower()})
FindTag(w) ==
  /\ worker[w].pc = "find_tag"
  /\ worker' = [worker EXCEPT ![w] =
       [@ EXCEPT !.pc = "save_tag",
                 !.tag_found = Lower(CurrentLabel(w).label) \in tags]]
  /\ UNCHANGED << images, tags, image_tags, store, queue, reaper, nextId,
                  old, execs, redelivered, crashed,
                  failures, client, served, countdown,
                  dup,
                  call,
                  uploaded_images, shared >>

\* insert_one into tags when the tag was not found (DuplicateKeyError under
\* the unique index on name when it exists by now), then the upsert of the
\* image-tag association
SaveTag(w) ==
  /\ worker[w].pc = "save_tag"
  /\ LET me == worker[w]
         name == Lower(CurrentLabel(w).label)
         last == me.tag_count + 1 = Len(me.unique_labels)
     IN IF ~me.tag_found /\ name \in tags
        THEN /\ worker' = [worker EXCEPT ![w] =
                  [@ EXCEPT !.pc = "except", !.exc = "duplicate_key"]]
             /\ UNCHANGED << tags, image_tags >>
        ELSE /\ tags' = tags \cup {name}
             /\ image_tags' = Upsert(image_tags, me.image_id, name, "yolo",
                                     CurrentLabel(w).confidence)
             /\ worker' = [worker EXCEPT ![w] =
                  [@ EXCEPT !.pc = IF last THEN "final" ELSE "find_tag",
                            !.tag_count = @ + 1]]
  /\ UNCHANGED << images, store, queue, reaper, nextId, old, execs,
                  redelivered, crashed,
                  failures, client, served, countdown,
                  dup,
                  call,
                  uploaded_images, shared >>

\* the terminal update adding the attempt's tag count to the stored one
FinalUpdate_Accumulates(w) ==
  /\ worker[w].pc = "final"
  /\ LET me == worker[w]
         i == me.image_id
     IN images' = UpdateOne(i,
          [images[i] EXCEPT !.metadata = TRUE,
                            !.phash = me.phash,
                            !.status = "completed",
                            !.processed_at = TRUE,
                            !.tag_count = IF @ < 0 THEN me.tag_count
                                          ELSE @ + me.tag_count,
                            !.thumbnail_key = IF me.thumb_key THEN TRUE
                                              ELSE @])
  /\ worker' = [worker EXCEPT ![w] = IdleWorker]
  /\ UNCHANGED << tags, image_tags, store, queue, reaper, nextId, old,
                  execs, redelivered, crashed, failures, client, served,
                  countdown,
                  dup,
                  call,
                  uploaded_images, shared >>

\* the terminal update_one with update_data, and the return
FinalUpdate(w) ==
  /\ worker[w].pc = "final"
  /\ LET me == worker[w]
         i == me.image_id
     IN images' = UpdateOne(i,
          [images[i] EXCEPT !.metadata = TRUE,
                            !.phash = me.phash,
                            !.status = "completed",
                            !.processed_at = TRUE,
                            !.tag_count = me.tag_count,
                            !.thumbnail_key = IF me.thumb_key THEN TRUE
                                              ELSE @])
  /\ worker' = [worker EXCEPT ![w] = IdleWorker]
  /\ UNCHANGED << tags, image_tags, store, queue, reaper, nextId, old,
                  execs, redelivered, crashed,
                  failures, client, served, countdown,
                  dup,
                  call,
                  uploaded_images, shared >>

\* the failure handler recording the error without resetting the status
MarkFailed_NoStatus(w) ==
  /\ worker[w].pc = "except"
  /\ LET i == worker[w].image_id
     IN images' = UpdateOne(i,
          [images[i] EXCEPT !.error = worker[w].exc, !.processed_at = TRUE])
  /\ worker' = [worker EXCEPT ![w] = [@ EXCEPT !.pc = "retry"]]
  /\ failures' = [failures EXCEPT ![worker[w].image_id] = @ + 1]
  /\ UNCHANGED << tags, image_tags, store, queue, reaper, nextId, old,
                  execs, redelivered, crashed, client, served,
                  countdown,
                  dup,
                  call,
                  uploaded_images, shared >>

\* the failure handler also storing the hash the attempt had computed
MarkFailed_KeepsHash(w) ==
  /\ worker[w].pc = "except"
  /\ LET i == worker[w].image_id
     IN images' = UpdateOne(i,
          [images[i] EXCEPT !.status = "failed",
                            !.error = worker[w].exc,
                            !.processed_at = TRUE,
                            !.phash = worker[w].phash])
  /\ worker' = [worker EXCEPT ![w] = [@ EXCEPT !.pc = "retry"]]
  /\ failures' = [failures EXCEPT ![worker[w].image_id] = @ + 1]
  /\ UNCHANGED << tags, image_tags, store, queue, reaper, nextId, old,
                  execs, redelivered, crashed, client, served,
                  countdown,
                  dup,
                  call,
                  uploaded_images, shared >>

\* except Exception: the update_one that records the failure; the error field
\* holds str(e), modelled by the kind of the exception
MarkFailed(w) ==
  /\ worker[w].pc = "except"
  /\ LET i == worker[w].image_id
     IN images' = UpdateOne(i,
          [images[i] EXCEPT !.status = "failed",
                            !.error = worker[w].exc,
                            !.processed_at = TRUE])
  /\ worker' = [worker EXCEPT ![w] = [@ EXCEPT !.pc = "retry"]]
  /\ failures' = [failures EXCEPT ![worker[w].image_id] = @ + 1]
  /\ UNCHANGED << tags, image_tags, store, queue, reaper, nextId, old,
                  execs, redelivered, crashed, client, served,
                  countdown,
                  dup,
                  call,
                  uploaded_images, shared >>

\* the retry decision counting the first execution as a retry
RetryOrRaise_OffByOne(w) ==
  /\ worker[w].pc = "retry"
  /\ LET me == worker[w]
         m == << me.image_id, me.retries + 1 >>
     IN IF me.retries + 1 < max_retries
        THEN /\ queue' = [queue EXCEPT ![m] = @ + 1]
             /\ countdown' = [countdown EXCEPT ![m] = retry_countdown(me.retries)]
        ELSE UNCHANGED << queue, countdown >>
  /\ worker' = [worker EXCEPT ![w] = IdleWorker]
  /\ UNCHANGED << images, tags, image_tags, store, reaper, nextId, old,
                  execs, redelivered, crashed,
                  failures, client, served,
                  dup,
                  call,
                  uploaded_images, shared >>

\* the retry decision that re-raises without ever scheduling a retry
RetryOrRaise_NoRetry(w) ==
  /\ worker[w].pc = "retry"
  /\ worker' = [worker EXCEPT ![w] = IdleWorker]
  /\ UNCHANGED << images, tags, image_tags, store, queue, reaper, nextId, old,
                  execs, redelivered, crashed,
                  failures, client, served, countdown,
                  dup,
                  call,
                  uploaded_images, shared >>

\* if self.request.retries < self.max_retries: raise self.retry(...); raise
RetryOrRaise(w) ==
  /\ worker[w].pc = "retry"
  /\ LET me == worker[w]
         m == << me.image_id, me.retries + 1 >>
     IN IF me.retries < max_retries
        THEN /\ queue' = [queue EXCEPT ![m] = @ + 1]
             /\ countdown' = [countdown EXCEPT ![m] = retry_countdown(me.retries)]
        ELSE UNCHANGED << queue, countdown >>
  /\ worker' = [worker EXCEPT ![w] = IdleWorker]
  /\ UNCHANGED << images, tags, image_tags, store, reaper, nextId, old,
                  execs, redelivered, crashed,
                  failures, client, served,
                  dup,
                  call,
                  uploaded_images, shared >>

\* the worker process dies, or the hard task_time_limit kills it, in the
\* middle of a job: no handler runs and the message is gone
Crash(w) ==
  /\ worker[w].pc # "idle"
  /\ Total(crashed) < MaxCrash
  /\ crashed' = [crashed EXCEPT ![worker[w].image_id] = @ + 1]
  /\ worker' = [worker EXCEPT ![w] = IdleWorker]
  /\ UNCHANGED << images, tags, image_tags, store, queue, reaper, nextId,
                  old, execs, redelivered,
                  failures, client, served, countdown,
                  dup,
                  call,
                  uploaded_images, shared >>

\* ------------------------------------------------ cleanup_failed_uploads
\* db.images.find({"status": "pending", "created_at": {"$lt": threshold}})
ReaperFind ==
  /\ reaper.pc = "idle"
  /\ LET failed_images ==
           { i \in ImageIds : images[i].status = "pending" /\ old[i] }
     IN reaper' = IF failed_images = {} THEN reaper
                  ELSE [pc |-> "delete_file", found |-> failed_images]
  /\ UNCHANGED << images, tags, image_tags, store, queue, worker, nextId,
                  old, execs, redelivered, crashed,
                  failures, client, served, countdown,
                  dup,
                  call,
                  uploaded_images, shared >>

ReaperCurrent == CHOOSE i \in reaper.found : \A j \in reaper.found : i <= j

\* storage.delete_file(image["storage_key"]): an S3Error is logged and the
\* loop goes on with the object still in the store
ReaperDeleteFile(s3error) ==
  /\ reaper.pc = "delete_file"
  /\ store' = IF s3error THEN store
              ELSE [store EXCEPT ![OrigKey(ReaperCurrent)] = "none"]
  /\ reaper' = [reaper EXCEPT !.pc = "delete_one"]
  /\ UNCHANGED << images, tags, image_tags, queue, worker, nextId, old,
                  execs, redelivered, crashed,
                  failures, client, served, countdown,
                  dup,
                  call,
                  uploaded_images, shared >>

\* db.images.delete_one({"_id": image["_id"]})
ReaperDeleteOne ==
  /\ reaper.pc = "delete_one"
  /\ images' = [images EXCEPT ![ReaperCurrent] = NoDoc]
  /\ LET rest == reaper.found \ {ReaperCurrent}
     IN reaper' = IF rest = {} THEN IdleReaper
                  ELSE [pc |-> "delete_file", found |-> rest]
  /\ UNCHANGED << tags, image_tags, store, queue, worker, nextId, old,
                  execs, redelivered, crashed,
                  failures, client, served, countdown,
                  dup,
                  call,
                  uploaded_images, shared >>

\* -------------------------------------------------------- add_custom_tag
\* image = db.images.find_one(...): 404 when there is none
AddTagFindImage(i, tag_name) ==
  /\ client.pc = "idle"
  /\ served < MaxRequests
  /\ served' = served + 1
  /\ client' = IF Exists(i)
               THEN [IdleClient EXCEPT !.pc = "add_find_tag", !.image_id = i,
                                       !.tag_name = tag_name]
               ELSE IdleClient
  /\ UNCHANGED << images, tags, image_tags, store, queue, worker, reaper,
                  nextId, old, execs, redelivered, crashed, failures,
                  countdown,
                  dup,
                  call,
                  uploaded_images, shared >>

\* tag = db.tags.find_one({"name": tag_name.lower()})
AddTagFindTag ==
  /\ client.pc = "add_find_tag"
  /\ client' = [client EXCEPT !.pc = "add_save",
                              !.tag_found = Lower(client.tag_name) \in tags]
  /\ UNCHANGED << images, tags, image_tags, store, queue, worker, reaper,
                  nextId, old, execs, redelivered, crashed, failures, served,
                  countdown,
                  dup,
                  call,
                  uploaded_images, shared >>

\* insert_one into tags when the tag was not found (DuplicateKeyError under
\* the unique index on name ends the request), then the upsert of the
\* association with confidence 1.0 and source "user"; the two writes are one
\* step because nothing reads a tag document between them that would not
\* read it after both
AddTagSave ==
  /\ client.pc = "add_save"
  /\ LET name == Lower(client.tag_name)
     IN IF ~client.tag_found /\ name \in tags
        THEN UNCHANGED << tags, image_tags >>
        ELSE /\ tags' = tags \cup {name}
             /\ image_tags' = Upsert(image_tags, client.image_id, name,
                                     "user", 1000)
  /\ client' = IdleClient
  /\ UNCHANGED << images, store, queue, worker, reaper, nextId, old, execs,
                  redelivered, crashed, failures, served, countdown,
                  dup,
                  call,
                  uploaded_images, shared >>

\* ---------------------------------------------------------- delete_image
\* image = db.images.find_one(...): 404 when there is none
DeleteFindImage(i) ==
  /\ client.pc = "idle"
  /\ served < MaxRequests
  /\ served' = served + 1
  /\ client' = IF Exists(i)
               THEN [IdleClient EXCEPT !.pc = "delete_file", !.image_id = i,
                                       !.thumbnail_key = images[i].thumbnail_key]
               ELSE IdleClient
  /\ UNCHANGED << images, tags, image_tags, store, queue, worker, reaper,
                  nextId, old, execs, redelivered, crashed, failures,
                  countdown,
                  dup,
                  call,
                  uploaded_images, shared >>

\* storage.delete_file(image["storage_key"]) and, when the document read had
\* a thumbnail_key, storage.delete_file(image["thumbnail_key"]); an S3Error
\* is logged inside delete_file and the handler goes on
DeleteFiles(s3error, s3error_thumb) ==
  /\ client.pc = "delete_file"
  /\ LET i == client.image_id
         s1 == IF s3error THEN store
               ELSE [store EXCEPT ![OrigKey(i)] = "none"]
     IN store' = IF client.thumbnail_key /\ ~s3error_thumb
                 THEN [s1 EXCEPT ![ThumbKey(i)] = "none"]
                 ELSE s1
  /\ client' = [client EXCEPT !.pc = "delete_one"]
  /\ UNCHANGED << images, tags, image_tags, queue, worker, reaper, nextId,
                  old, execs, redelivered, crashed, failures, served,
                  countdown,
                  dup,
                  call,
                  uploaded_images, shared >>

\* db.images.delete_one({"_id": ...})
DeleteOne ==
  /\ client.pc = "delete_one"
  /\ images' = [images EXCEPT ![client.image_id] = NoDoc]
  /\ client' = [client EXCEPT !.pc = "delete_many"]
  /\ UNCHANGED << tags, image_tags, store, queue, worker, reaper, nextId,
                  old, execs, redelivered, crashed, failures, served,
                  countdown,
                  dup,
                  call,
                  uploaded_images, shared >>

\* db.image_tags.delete_many({"image_id": ...})
DeleteMany ==
  /\ client.pc = "delete_many"
  /\ image_tags' = { a \in image_tags : a.image_id # client.image_id }
  /\ client' = IdleClient
  /\ UNCHANGED << images, tags, store, queue, worker, reaper, nextId, old,
                  execs, redelivered, crashed, failures, served, countdown,
                  dup,
                  call,
                  uploaded_images, shared >>

\* ------------------------------------------------------- find_duplicates
\* the documents find_duplicates groups: those with a phash that is not null
DuplicateCandidates ==
  { i \in ImageIds : Exists(i) /\ images[i].phash \notin {"absent", "null"} }

\* a phash is the hex string compute_phash returns, held as its sequence of
\* hex digits; the hashes of the documents are one digit (four bits) wide
PHashes == { << 0 >>, << 1 >>, << 3 >>, << 7 >> }

\* the phash of a document that has none: the key is missing or holds null
NoHash == << >>

\* the thresholds a request passes
Thresholds == (0..MaxThreshold) \cup {DefaultThreshold}

\* the user's documents in the order the cursor yields them: documents with
\* distinct _id (here the position in the list), with or without a phash
DupImageLists ==
  UNION { [1..n -> PHashes \cup {NoHash}] : n \in 0..MaxDupImages }

\* a query that returns every document, one without a phash under the hash
\* of an all-zero image
DupQuery_DefaultHash(imgs) ==
  [k \in 1..Len(imgs) |->
     IF imgs[k].phash = NoHash THEN [imgs[k] EXCEPT !.phash = << 0 >>]
     ELSE imgs[k]]

\* db.images.find({"phash": {"$exists": True, "$ne": None}})
DupQuery(imgs) == SelectSeq(imgs, LAMBDA d : d.phash # NoHash)

DupDocs(hashes) == [k \in 1..Len(hashes) |-> [id |-> k, phash |-> hashes[k]]]

\* number of bits set in d xor e, for hex digits d and e
DigitDistance(d, e) ==
  LET Bit(x, b) == (x \div (2 ^ b)) % 2
      RECURSIVE Count(_)
      Count(b) == IF b < 0 THEN 0
                  ELSE (IF Bit(d, b) # Bit(e, b) THEN 1 ELSE 0) + Count(b - 1)
  IN Count(3)

\* a distance that counts only the bits set in the first hash and clear in
\* the second
hamming_distance_OneSided(hash1, hash2) ==
  LET Bit(x, b) == (x \div (2 ^ b)) % 2
      Ones == { p \in (1..Len(hash1)) \X (0..3) :
                  Bit(hash1[p[1]], p[2]) = 1 /\ Bit(hash2[p[1]], p[2]) = 0 }
  IN IF hash1 = NoHash \/ hash2 = NoHash \/ Len(hash1) # Len(hash2)
     THEN ErrorDistance
     ELSE Cardinality(Ones)

\* hamming_distance: hex_to_hash on both strings and the number of differing
\* bits; hashes of different shapes raise inside imagehash and give 999
hamming_distance(hash1, hash2) ==
  LET RECURSIVE Sum(_)
      Sum(k) == IF k = 0 THEN 0
                ELSE DigitDistance(hash1[k], hash2[k]) + Sum(k - 1)
  IN IF hash1 = NoHash \/ hash2 = NoHash \/ Len(hash1) # Len(hash2)
     THEN ErrorDistance
     ELSE Sum(Len(hash1))

\* similarity_score: 1 - distance / max_distance, held as its numerator over
\* max_distance
similarity_score(hash1, hash2) == max_distance - hamming_distance(hash1, hash2)

\* the list "similarities" of a group: the score of every pair j < k, in the
\* order of the two loops
Similarities(group) ==
  LET RECURSIVE Pairs(_, _)
      Pairs(j, k) ==
        IF j > Len(group) THEN << >>
        ELSE IF k > Len(group) THEN Pairs(j + 1, j + 2)
        ELSE << similarity_score(group[j].phash, group[k].phash) >>
               \o Pairs(j, k + 1)
  IN Pairs(1, 2)

SumSeq(seq) ==
  LET RECURSIVE Sum(_)
      Sum(k) == IF k = 0 THEN 0 ELSE seq[k] + Sum(k - 1)
  IN Sum(Len(seq))

\* round(a / b, 0) for b > 0 as Python rounds: to nearest, ties to even
RoundHalfEven(a, b) ==
  LET q == a \div b
      r == a % b
  IN IF 2 * r < b THEN q
     ELSE IF 2 * r > b THEN q + 1
     ELSE IF q % 2 = 0 THEN q ELSE q + 1

\* a group score that averages the similarity to the seed only
group_similarity_SeedOnly(group) ==
  LET sims == [k \in 1..(Len(group) - 1) |->
                 similarity_score(group[1].phash, group[k + 1].phash)]
  IN IF Len(sims) = 0 THEN 0
     ELSE RoundHalfEven(1000 * SumSeq(sims), max_distance * Len(sims))

\* round(avg_similarity, 3) of a group, in thousandths
group_similarity(group) ==
  LET sims == Similarities(group)
  IN IF Len(sims) = 0 THEN 0
     ELSE RoundHalfEven(1000 * SumSeq(sims), max_distance * Len(sims))

\* the inner loop "for img2 in images[i+1:]" from position j on: the group
\* and the processed set it ends with
RECURSIVE Absorb(_, _, _, _, _, _)
Absorb(imgs, img1, j, group, processed, threshold) ==
  IF j > Len(imgs) THEN [group |-> group, processed |-> processed]
  ELSE LET img2 == imgs[j]
       IN IF img2.id \in processed
          THEN Absorb(imgs, img1, j + 1, group, processed, threshold)
          ELSE IF hamming_distance(img1.phash, img2.phash) <= threshold
          THEN Absorb(imgs, img1, j + 1, Append(group, img2),
                      processed \cup {img2.id}, threshold)
          ELSE Absorb(imgs, img1, j + 1, group, processed, threshold)

\* the outer loop "for i, img1 in enumerate(images)" from position i on
RECURSIVE GroupFrom(_, _, _, _, _)
GroupFrom(imgs, i, processed, duplicate_groups, threshold) ==
  IF i > Len(imgs) THEN duplicate_groups
  ELSE IF imgs[i].id \in processed
  THEN GroupFrom(imgs, i + 1, processed, duplicate_groups, threshold)
  ELSE LET r == Absorb(imgs, imgs[i], i + 1, << imgs[i] >>, processed,
                       threshold)
       IN GroupFrom(imgs, i + 1, r.processed,
                    IF Len(r.group) > 1
                    THEN Append(duplicate_groups, r.group)
                    ELSE duplicate_groups,
                    threshold)

\* grouping that never records an absorbed image as processed
find_duplicates_NoProcessed(all_imgs, threshold) ==
  LET imgs == DupQuery(all_imgs)
      Close(i, d) == hamming_distance(imgs[i].phash, d.phash) <= threshold
      all == [i \in 1..Len(imgs) |->
                << imgs[i] >> \o
                SelectSeq(SubSeq(imgs, i + 1, Len(imgs)),
                          LAMBDA d : Close(i, d))]
  IN SelectSeq(all, LAMBDA g : Len(g) > 1)

\* grouping that absorbs an image only when it is strictly closer than the
\* threshold
find_duplicates_Strict(imgs, threshold) ==
  GroupFrom(DupQuery(imgs), 1, {}, << >>, threshold - 1)

\* find_duplicates: the groups of more than one image, in the order their
\* seeds are met
find_duplicates(imgs, threshold) ==
  GroupFrom(DupQuery(imgs), 1, {}, << >>, threshold)

\* GET /search/duplicates answered for the documents the cursor returned
FindDuplicates ==
  /\ ~dup.done
  /\ LET duplicate_groups == find_duplicates(dup.images, dup.threshold)
     IN dup' = [dup EXCEPT
                  !.groups = duplicate_groups,
                  !.scores = [g \in 1..Len(duplicate_groups) |->
                                group_similarity(duplicate_groups[g])],
                  !.done = TRUE]
  /\ UNCHANGED << images, tags, image_tags, store, queue, worker, reaper,
                  nextId, old, execs, redelivered, crashed, failures, client,
                  served, countdown,
                  call,
                  uploaded_images, shared >>

\* ------------------------------------------------ phash.py, yolo_detector
\* hex strings of hashes of two widths: 2x2 (one digit) and 4x4 (four digits)
HashInputs ==
  { << d >> : d \in 0..15 }
    \cup { << 0, 0, 0, 0 >>, << 0, 0, 0, 1 >>, << 15, 15, 15, 15 >> }

\* hamming_distance and similarity_score called on two hash strings; the
\* try / except Exception of hamming_distance lets nothing reach the caller
CompareHashes ==
  /\ call.op = "compare"
  /\ ~call.done
  /\ call' = [call EXCEPT
                !.raised = FALSE,
                !.distance = hamming_distance(call.hash1, call.hash2),
                !.similarity = similarity_score(call.hash1, call.hash2),
                !.done = TRUE]
  /\ UNCHANGED << images, tags, image_tags, store, queue, worker, reaper,
                  nextId, old, execs, redelivered, crashed, failures, client,
                  served, countdown, dup,
                  uploaded_images, shared >>

\* the detections a call of extract_unique_labels gets
Detections ==
  [label : {"cat", "dog"}, confidence : {300, 500, 900}]

DetectionLists ==
  UNION { [1..n -> Detections] : n \in 0..MaxDetections }

\* the loop filling the dict label_confidence, from detection k on; the dict
\* is held as its items in insertion order
RECURSIVE LabelConfidence(_, _, _)
LabelConfidence(detections, k, label_confidence) ==
  IF k > Len(detections) THEN label_confidence
  ELSE LET label == detections[k].label
           confidence == detections[k].confidence
           known == \E n \in 1..Len(label_confidence) :
                      label_confidence[n].label = label
       IN IF ~known
          THEN LabelConfidence(detections, k + 1,
                 Append(label_confidence,
                        [label |-> label, confidence |-> confidence]))
          ELSE LabelConfidence(detections, k + 1,
                 [n \in 1..Len(label_confidence) |->
                    IF label_confidence[n].label = label
                         /\ confidence > label_confidence[n].confidence
                    THEN [label |-> label, confidence |-> confidence]
                    ELSE label_confidence[n]])

\* list.sort(key=confidence, reverse=True): stable, descending
RECURSIVE SortByConfidence(_)
SortByConfidence(seq) ==
  IF Len(seq) = 0 THEN << >>
  ELSE LET rest == SortByConfidence(SubSeq(seq, 1, Len(seq) - 1))
           x == seq[Len(seq)]
           before == SelectSeq(rest, LAMBDA y : y.confidence >= x.confidence)
           after == SelectSeq(rest, LAMBDA y : y.confidence < x.confidence)
       IN before \o << x >> \o after

\* a reduction that keeps the confidence of the first detection of a label
extract_unique_labels_FirstSeen(detections) ==
  LET first == { k \in 1..Len(detections) :
                   \A j \in 1..(k - 1) :
                     detections[j].label # detections[k].label }
      RECURSIVE Take(_)
      Take(k) == IF k > Len(detections) THEN << >>
                 ELSE (IF k \in first THEN << detections[k] >> ELSE << >>)
                        \o Take(k + 1)
  IN SortByConfidence(Take(1))

\* YOLODetector.extract_unique_labels
extract_unique_labels(detections) ==
  SortByConfidence(LabelConfidence(detections, 1, << >>))

ExtractLabels ==
  /\ call.op = "labels"
  /\ ~call.done
  /\ call' = [call EXCEPT
                !.unique_labels = extract_unique_labels(call.detections),
                !.done = TRUE]
  /\ UNCHANGED << images, tags, image_tags, store, queue, worker, reaper,
                  nextId, old, execs, redelivered, crashed, failures, client,
                  served, countdown, dup,
                  uploaded_images, shared >>

\* ------------------------------------------------------------------ Next
WorkerStep(w) ==
  \/ \E i \in ImageIds, r \in Retries : StartJob(w, i, r)
  \/ FindOne(w)
  \/ \E s3error \in BOOLEAN : Download(w, s3error)
  \/ \E thumb_success \in BOOLEAN, hash_raised \in BOOLEAN,
        detect_raised \in BOOLEAN, dets \in DetectOutcomes :
       UploadThumbAndAnalyse(w, thumb_success, hash_raised, detect_raised, dets)
  \/ FindTag(w)
  \/ SaveTag(w)
  \/ FinalUpdate(w)
  \/ MarkFailed(w)
  \/ RetryOrRaise(w)

ReaperStep ==
  \/ ReaperFind
  \/ \E s3error \in BOOLEAN : ReaperDeleteFile(s3error)
  \/ ReaperDeleteOne

ClientStep ==
  \/ \E i \in ImageIds, tag_name \in TagNames : AddTagFindImage(i, tag_name)
  \/ AddTagFindTag
  \/ AddTagSave
  \/ \E i \in ImageIds : DeleteFindImage(i)
  \/ \E s3error \in BOOLEAN, s3error_thumb \in BOOLEAN :
       DeleteFiles(s3error, s3error_thumb)
  \/ DeleteOne
  \/ DeleteMany

Next ==
  \/ \E content \in Contents, fault \in UploadFaults :
       upload_images(content, fault)
  \/ \E content \in Contents \cup {"none"} : ingest_image(content)
  \/ \E i \in ImageIds : Tick(i)
  \/ \E i \in ImageIds, r \in Retries : Redeliver(i, r)
  \/ \E w \in Workers : WorkerStep(w)
  \/ \E w \in Workers : Crash(w)
  \/ ReaperStep

Spec == Init /\ [][Next]_vars

\* the scheduling the deployment provides: a worker that has a job goes on
\* executing it, idle workers take queued messages, the sweep keeps running
FairSpec ==
  /\ Spec
  /\ \A w \in Workers : WF_vars(WorkerStep(w))
  /\ WF_vars(ReaperStep)

\* the pipeline together with the API requests that tag and delete images,
\* with a broker that delivers every message once
ApiNext ==
  \/ \E content \in Contents, fault \in UploadFaults :
       upload_images(content, fault)
  \/ \E content \in Contents \cup {"none"} : ingest_image(content)
  \/ \E i \in ImageIds : Tick(i)
  \/ \E w \in Workers : WorkerStep(w)
  \/ \E w \in Workers : Crash(w)
  \/ ReaperStep
  \/ ClientStep

ApiSpec == Init /\ [][ApiNext]_vars

\* a find_duplicates request on any list of hashed documents and any
\* threshold up to MaxThreshold
DupInit ==
  /\ images = [i \in ImageIds |-> NoDoc]
  /\ tags = {}
  /\ image_tags = {}
  /\ store = [k \in Keys |-> "none"]
  /\ queue = [m \in ImageIds \X Retries |-> 0]
  /\ worker = [w \in Workers |-> IdleWorker]
  /\ reaper = IdleReaper
  /\ nextId = 1
  /\ old = [i \in ImageIds |-> FALSE]
  /\ execs = [i \in ImageIds |-> 0]
  /\ redelivered = [i \in ImageIds |-> 0]
  /\ crashed = [i \in ImageIds |-> 0]
  /\ failures = [i \in ImageIds |-> 0]
  /\ client = IdleClient
  /\ served = 0
  /\ countdown = [m \in ImageIds \X Retries |-> 0]
  /\ call = NoCall
  /\ uploaded_images = [i \in ImageIds |-> "none"]
  /\ shared = NoShared
  /\ \E hashes \in DupImageLists, threshold \in Thresholds :
       dup = [images |-> DupDocs(hashes), threshold |-> threshold,
              groups |-> << >>, scores |-> << >>, done |-> FALSE]

DupNext == FindDuplicates

DupSpec == DupInit /\ [][DupNext]_vars

\* a call of the hash helpers on any two hash strings, or of
\* extract_unique_labels on any list of up to MaxDetections detections
FnInit ==
  /\ images = [i \in ImageIds |-> NoDoc]
  /\ tags = {}
  /\ image_tags = {}
  /\ store = [k \in Keys |-> "none"]
  /\ queue = [m \in ImageIds \X Retries |-> 0]
  /\ worker = [w \in Workers |-> IdleWorker]
  /\ reaper = IdleReaper
  /\ nextId = 1
  /\ old = [i \in ImageIds |-> FALSE]
  /\ execs = [i \in ImageIds |-> 0]
  /\ redelivered = [i \in ImageIds |-> 0]
  /\ crashed = [i \in ImageIds |-> 0]
  /\ failures = [i \in ImageIds |-> 0]
  /\ client = IdleClient
  /\ served = 0
  /\ countdown = [m \in ImageIds \X Retries |-> 0]
  /\ dup = NoDup
  /\ \/ \E hash1 \in HashInputs, hash2 \in HashInputs :
          call = [NoCall EXCEPT !.op = "compare", !.hash1 = hash1,
                                !.hash2 = hash2, !.done = FALSE]
     \/ \E detections \in DetectionLists :
          call = [NoCall EXCEPT !.op = "labels", !.detections = detections,
                                !.done = FALSE]
  /\ uploaded_images = [i \in ImageIds |-> "none"]
  /\ shared = NoShared

FnNext ==
  \/ CompareHashes
  \/ ExtractLabels

FnSpec == FnInit /\ [][FnNext]_vars

\* --------------------------------------------- the handlers, user by user
\* The serving layer as several users drive it. Each request is one step:
\* the claims settled here are about sequences of requests, not about two
\* requests interleaving. Every handler reads the caller from the token
\* (user_id = get_user_id(current_user)) and is given the database db.

pipeline_vars ==
  << images, tags, image_tags, store, queue, worker, reaper, nextId, old,
     execs, redelivered, crashed, failures, client, served, countdown, dup,
     call, uploaded_images >>

\* storage.generate_key(user_id, filename): "<user_id>/<fresh uuid>.<ext>"
generate_key(user_id) == << user_id, shared.nextKey >>

\* the lists of image ids a client posts to add_images_to_album
ImageIdLists ==
  { << i >> : i \in RecordIds } \cup { << i, j >> : i, j \in RecordIds }

\* the tag names of a search request (empty: no tag filter)
SearchTags == SUBSET {"Cat", "Dog"}

\* the labels a job attaches to an image
LabelSets == { {}, {"cat"} }

\* one file of upload_images by user_id
upload_images_as(user_id, fault) ==
  /\ shared.nextId <= MaxRecords
  /\ shared.nextKey <= MaxKeys
  /\ shared' =
       [shared EXCEPT
          !.nextKey = @ + 1,
          !.blobs = IF fault = "upload_file" THEN @
                    ELSE @ \cup {generate_key(user_id)},
          !.images = IF fault \in {"upload_file", "insert_one"} THEN @
                     ELSE [@ EXCEPT ![shared.nextId] =
                             [user_id |-> user_id,
                              storage_key |-> generate_key(user_id),
                              status |-> "pending", phash |-> FALSE]],
          !.nextId = IF fault \in {"upload_file", "insert_one"} THEN @
                     ELSE @ + 1]
  /\ UNCHANGED pipeline_vars

\* presign_upload: a key under the caller's prefix and a URL to PUT to it;
\* put: the client does upload the bytes to that URL
presign_upload(user_id, put) ==
  /\ shared.nextKey <= MaxKeys
  /\ shared' =
       [shared EXCEPT
          !.nextKey = @ + 1,
          !.blobs = IF put THEN @ \cup {generate_key(user_id)} ELSE @]
  /\ UNCHANGED pipeline_vars

\* ingest_image: a document of the caller for request.storage_key, whatever
\* key the request names
ingest_image_as(user_id, storage_key) ==
  /\ shared.nextId <= MaxRecords
  /\ shared' =
       [shared EXCEPT
          !.images[shared.nextId] =
             [user_id |-> user_id, storage_key |-> storage_key,
              status |-> "completed", phash |-> FALSE],
          !.nextId = @ + 1]
  /\ UNCHANGED pipeline_vars

\* a run of process_image on record i seen from the serving layer: either
\* it completes the record with its hash and its tags, or it marks it failed
process_image_as(i, labels, ok) ==
  /\ shared.images[i].status \in {"pending", "failed"}
  /\ shared' =
       IF ok
       THEN [shared EXCEPT
               !.images[i].status = "completed",
               !.images[i].phash = TRUE,
               !.tags = @ \cup labels,
               !.image_tags = @ \cup { << i, t >> : t \in labels }]
       ELSE [shared EXCEPT !.images[i].status = "failed"]
  /\ UNCHANGED pipeline_vars

\* add_custom_tag by user_id
add_custom_tag_as(user_id, i, tag_name) ==
  /\ shared.images[i].user_id = user_id
  /\ shared' =
       [shared EXCEPT
          !.tags = @ \cup {Lower(tag_name)},
          !.image_tags = @ \cup { << i, Lower(tag_name) >> }]
  /\ UNCHANGED pipeline_vars

\* remove_tag by user_id
remove_tag(user_id, i, tag_name) ==
  /\ shared.images[i].user_id = user_id
  /\ shared' =
       [shared EXCEPT
          !.image_tags = IF Lower(tag_name) \in shared.tags
                         THEN @ \ { << i, Lower(tag_name) >> }
                         ELSE @]
  /\ UNCHANGED pipeline_vars

\* delete_image by user_id: the blob under the document's storage_key (kept
\* when the store fails, which delete_file swallows), the document and its
\* image_tags; album_images is not touched
delete_image_as(user_id, i, s3error) ==
  /\ shared.images[i].user_id = user_id
  /\ shared' =
       [shared EXCEPT
          !.blobs = IF s3error THEN @ ELSE @ \ {shared.images[i].storage_key},
          !.images[i] = NoImage,
          !.image_tags = { e \in @ : e[1] # i }]
  /\ UNCHANGED pipeline_vars

\* create_album by user_id
create_album(user_id) ==
  LET free == { a \in AlbumIds : shared.albums[a] = "none" }
  IN /\ free # {}
     /\ LET a == CHOOSE x \in free : \A y \in free : x <= y
        IN shared' = [shared EXCEPT !.albums[a] = user_id]
     /\ UNCHANGED pipeline_vars

\* update_one({album_id, image_id}, ..., upsert=True) on album_images
UpsertMembership(rows, a, i) ==
  [rows EXCEPT ![<< a, i >>] = IF @ = 0 THEN 1 ELSE @]

\* the loop adding every id of the request, owned by the caller or not
RECURSIVE AddEach_Unchecked(_, _, _, _, _)
AddEach_Unchecked(rows, a, image_ids, k, user_id) ==
  IF k > Len(image_ids) THEN rows
  ELSE AddEach_Unchecked(UpsertMembership(rows, a, image_ids[k]),
                         a, image_ids, k + 1, user_id)

\* the loop of add_images_to_album: an id is added when the caller has an
\* image of that id and skipped otherwise
RECURSIVE AddEach(_, _, _, _, _)
AddEach(rows, a, image_ids, k, user_id) ==
  IF k > Len(image_ids) THEN rows
  ELSE AddEach(IF shared.images[image_ids[k]].user_id = user_id
               THEN UpsertMembership(rows, a, image_ids[k])
               ELSE rows,
               a, image_ids, k + 1, user_id)

add_images_to_album(user_id, a, image_ids) ==
  /\ shared.albums[a] = user_id
  /\ shared' =
       [shared EXCEPT !.album_images = AddEach(@, a, image_ids, 1, user_id)]
  /\ UNCHANGED pipeline_vars

\* remove_image_from_album: delete_one on the row of the album and the image
remove_image_from_album(user_id, a, i) ==
  /\ shared.albums[a] = user_id
  /\ shared' =
       [shared EXCEPT
          !.album_images[<< a, i >>] = IF @ > 0 THEN @ - 1 ELSE @]
  /\ UNCHANGED pipeline_vars

\* ---- the reads: what a request of user_id returns from the database db
\* list_images: find({"user_id": user_id})
list_images(db, user_id) ==
  { i \in RecordIds : db.images[i].user_id = user_id }

\* get_image: find_one({"_id": i, "user_id": user_id}), 404 otherwise
get_image(db, user_id, i) ==
  IF db.images[i].user_id = user_id THEN {i} ELSE {}

\* get_image_url of the original: the key the returned URL is signed for
get_image_url_as(db, user_id, i) ==
  IF db.images[i].user_id = user_id THEN {db.images[i].storage_key} ELSE {}

\* search_images with the tag names of the request
search_images(db, user_id, tag_names) ==
  LET tag_list == { Lower(t) : t \in tag_names }
      tag_ids == { t \in tag_list : t \in db.tags }
      image_ids == { e[1] : e \in { x \in db.image_tags : x[2] \in tag_ids } }
  IN { i \in RecordIds :
         /\ db.images[i].user_id = user_id
         /\ db.images[i].status = "completed"
         /\ tag_ids # {} => i \in image_ids }

\* the documents find_duplicates groups: the caller's, with a phash
find_duplicates_query(db, user_id) ==
  { i \in RecordIds : db.images[i].user_id = user_id /\ db.images[i].phash }

\* get_album: image_count = count_documents({"album_id": a}) on album_images
RECURSIVE CountRows(_, _, _)
CountRows(db, a, i) ==
  IF i = 0 THEN 0 ELSE db.album_images[<< a, i >>] + CountRows(db, a, i - 1)

get_album(db, user_id, a) ==
  IF db.albums[a] = user_id THEN CountRows(db, a, MaxRecords) ELSE -1

\* get_album_images: the album must be the caller's; the images are found
\* by the ids of its rows alone
get_album_images(db, user_id, a) ==
  IF db.albums[a] # user_id THEN {}
  ELSE { i \in RecordIds :
           db.album_images[<< a, i >>] > 0 /\ db.images[i].status # "absent" }

ServeNext ==
  \/ \E u \in Users, fault \in UploadFaults : upload_images_as(u, fault)
  \/ \E u \in Users, put \in BOOLEAN : presign_upload(u, put)
  \/ \E u \in Users, k \in StorageKeys : ingest_image_as(u, k)
  \/ \E i \in RecordIds, labels \in LabelSets, ok \in BOOLEAN :
       process_image_as(i, labels, ok)
  \/ \E u \in Users, i \in RecordIds, t \in TagNames :
       add_custom_tag_as(u, i, t)
  \/ \E u \in Users, i \in RecordIds, t \in TagNames : remove_tag(u, i, t)
  \/ \E u \in Users, i \in RecordIds, s3error \in BOOLEAN :
       delete_image_as(u, i, s3error)
  \/ \E u \in Users : create_album(u)
  \/ \E u \in Users, a \in AlbumIds, ids \in ImageIdLists :
       add_images_to_album(u, a, ids)
  \/ \E u \in Users, a \in AlbumIds, i \in RecordIds :
       remove_image_from_album(u, a, i)

ServeSpec == Init /\ [][ServeNext]_vars

\* ================================================================ claims

\* a worker is executing the body of process_image for image i: it has set
\* the status and has not yet written the terminal or the failure update
Processing(w, i) ==
  /\ worker[w].image_id = i
  /\ worker[w].pc \notin {"idle", "retry"}

\* no message for image i is queued and no worker holds a job for it
Quiescent(i) ==
  /\ QueueTotal(i) = 0
  /\ \A w \in Workers : worker[w].image_id # i

AllowedTransitions ==
  { << "pending", "processing" >>, << "processing", "completed" >>,
    << "processing", "failed" >>, << "failed", "processing" >> }

\* C1: the status of a record changes only along pending->processing,
\* processing->completed, processing->failed and failed->processing; a
\* completed record never changes status again.
C1_StatusTransitions ==
  [][\A i \in ImageIds :
       (Exists(i) /\ Exists(i)' /\ images[i].status # images[i].status')
         => << images[i].status, images[i].status' >> \in AllowedTransitions]_vars

\* every execution begun for image i has ended, each in the failure handler,
\* each message was delivered once and no execution was killed
AllAttemptsFailed(i) ==
  /\ Quiescent(i)
  /\ execs[i] > 0
  /\ failures[i] = execs[i]
  /\ redelivered[i] = 0
  /\ crashed[i] = 0

\* C2 as claimed: a job whose every attempt fails is executed exactly
\* max_retries times and then leaves the record in failed.
C2_ExactlyCeilingAttempts ==
  \A i \in ImageIds :
    AllAttemptsFailed(i)
      => /\ execs[i] = max_retries
         /\ Exists(i) => images[i].status = "failed"

\* C2 as amended: a job whose every attempt fails is executed exactly
\* max_retries + 1 times (the first execution and max_retries retries) and
\* then leaves the record in failed; a job whose messages are each delivered
\* once is never executed more than max_retries + 1 times.
C2_CeilingPlusOneAttempts ==
  \A i \in ImageIds :
    /\ redelivered[i] = 0 => execs[i] <= max_retries + 1
    /\ AllAttemptsFailed(i)
         => /\ execs[i] = max_retries + 1
            /\ Exists(i) => images[i].status = "failed"

C2_Witness ==
  \E i \in ImageIds :
    /\ AllAttemptsFailed(i)
    /\ execs[i] = max_retries + 1
    /\ images[i].status = "failed"

\* C3: bytes that cannot be decoded put the record in failed on the first
\* attempt and no retry is scheduled: the retry counter stays at zero and the
\* job is not executed again.
C3_InvalidImageNotRetried ==
  \A i \in ImageIds :
    (store[OrigKey(i)] = "corrupt" /\ redelivered[i] = 0)
      => /\ execs[i] <= 1
         /\ \A r \in 1..max_retries : queue[<< i, r >>] = 0

\* C4: two workers never process the same image id at the same time.
C4_NoConcurrentProcessing ==
  \A w1, w2 \in Workers :
    \A i \in ImageIds :
      (Processing(w1, i) /\ Processing(w2, i)) => w1 = w2

\* C5: no reader sees model tags attached to an image whose status is still
\* processing.
C5_TagsOnlyWithCompleted ==
  \A i \in ImageIds :
    images[i].status = "processing"
      => ~ \E a \in image_tags : a.image_id = i /\ a.source = "yolo"

C7_StuckProcessingReclaimed ==
  \A i \in ImageIds :
    (crashed[i] > 0 /\ images[i].status = "processing")
      ~> (images[i].status # "processing")

\* C8: whenever the sweep deletes a blob or a record, that record is in
\* pending at that moment: it never deletes what a worker has already moved
\* to processing, completed or failed.
C8_ReaperDeletesOnlyPending ==
  [][\A i \in ImageIds :
       (reaper' # reaper
          /\ \/ store[OrigKey(i)] # "none" /\ store[OrigKey(i)]' = "none"
             \/ Exists(i) /\ ~Exists(i)')
         => images[i].status = "pending"]_vars

\* C9: an attempt in which the detector raised does not complete the record.
C9_DetectionFailureNotCompleted ==
  [][\A w \in Workers :
       (worker[w].detect_raised /\ worker[w].pc = "final"
          /\ worker[w]'.pc = "idle" /\ crashed' = crashed)
         => images'[worker[w].image_id].status # "completed"]_vars

\* C10: when computing the perceptual hash fails, the attempt goes on to the
\* tags and the terminal update; that update completes the record with
\* metadata, the tags of the attempt and a null phash, schedules no retry and
\* leaves the record out of the documents find_duplicates groups.
C10_HashFailureNonFatal ==
  [][\A w \in Workers :
       LET me == worker[w]
           i == me.image_id
       IN /\ (me.pc = "upload_thumb" /\ worker[w]'.hash_failed)
               => /\ worker[w]'.pc \in {"find_tag", "final"}
                  /\ worker[w]'.phash = "null"
          /\ (me.pc = "final" /\ me.hash_failed /\ worker[w]'.pc = "idle"
                /\ crashed' = crashed /\ Exists(i))
               => /\ images'[i].status = "completed"
                  /\ images'[i].phash = "null"
                  /\ images'[i].metadata
                  /\ images'[i].processed_at
                  /\ images'[i].tag_count = Len(me.unique_labels)
                  /\ \A k \in 1..Len(me.unique_labels) :
                       \E a \in image_tags' :
                         /\ a.image_id = i
                         /\ a.tag = Lower(me.unique_labels[k].label)
                  /\ queue' = queue
                  /\ i \notin DuplicateCandidates']_vars

C10_Witness ==
  \E i \in ImageIds :
    /\ images[i].status = "completed"
    /\ images[i].phash = "null"
    /\ images[i].metadata
    /\ images[i].tag_count = 1
    /\ \E a \in image_tags : a.image_id = i
    /\ execs[i] = 1
    /\ i \notin DuplicateCandidates

C12_FetchFailureRetried ==
  [][\A w \in Workers : \A i \in ImageIds :
       (i = worker[w].image_id)
         => /\ (worker[w].pc = "download"
                  /\ worker'[w].pc \notin {"download", "idle"}
                  /\ store[OrigKey(i)] = "none")
                 => /\ worker'[w].pc = "except"
                    /\ worker'[w].exc = "download_failed"
            /\ (worker[w].exc = "download_failed" /\ worker[w].pc = "except"
                  /\ worker'[w].pc = "retry" /\ Exists(i))
                 => images'[i].status = "failed"
            /\ (worker[w].exc = "download_failed" /\ worker[w].pc = "retry"
                  /\ worker'[w].pc = "idle" /\ crashed' = crashed
                  /\ worker[w].retries < max_retries)
                 => queue'[<< i, worker[w].retries + 1 >>]
                      = queue[<< i, worker[w].retries + 1 >>] + 1]_vars

\* a record completed by a later attempt after an attempt that could not
\* fetch the blob had marked it failed
C12_Witness ==
  \E i \in ImageIds :
    /\ images[i].status = "completed"
    /\ images[i].error = "download_failed"
    /\ images[i].metadata
    /\ failures[i] > 0
    /\ redelivered[i] = 0
    /\ crashed[i] = 0

\* C13: metadata and phash of a record change only in a step that also sets
\* its status to completed, so a pending record has neither; the failure
\* update of an attempt changes only status, error and processed_at.
C13_MetadataOnlyWithCompleted ==
  /\ [](\A i \in ImageIds :
          images[i].status = "pending"
            => ~images[i].metadata /\ images[i].phash = "absent")
  /\ [][\A i \in ImageIds :
          /\ (Exists(i)'
                /\ \/ images'[i].metadata # images[i].metadata
                   \/ images'[i].phash # images[i].phash)
               => images'[i].status = "completed"
          /\ (\E w \in Workers : worker[w].pc = "except"
                                   /\ worker'[w].pc = "retry")
               => images'[i] = [images[i] EXCEPT
                                  !.status = images'[i].status,
                                  !.error = images'[i].error,
                                  !.processed_at = images'[i].processed_at]]_vars

\* an attempt that had computed the hash and then failed while saving a tag:
\* the record is failed and carries neither metadata nor phash
C13_Witness ==
  \E w \in Workers :
    /\ worker[w].pc = "retry"
    /\ worker[w].exc = "duplicate_key"
    /\ worker[w].phash = "hex"
    /\ images[worker[w].image_id].status = "failed"
    /\ ~images[worker[w].image_id].metadata
    /\ images[worker[w].image_id].phash = "absent"

\* C14: every step that creates an image record creates it with status
\* pending and enqueues a job for it.
C14_RecordsEnterPending ==
  [][\A i \in ImageIds :
       (~Exists(i) /\ Exists(i)')
         => /\ images'[i].status = "pending"
            /\ queue'[<< i, 0 >>] = queue[<< i, 0 >>] + 1]_vars

\* C18: the tag_strings of a completed record are the lowercased labels of
\* the tags attached to it.
C18_TagStringsMirrorTags ==
  \A i \in ImageIds :
    images[i].status = "completed"
      => images[i].tag_strings
           = { Lower(a.tag) : a \in { b \in image_tags : b.image_id = i } }

\* C15: no step of process_image changes the blob stored under a record's
\* original key; a stored original changes only by being removed, and only
\* by the file deletion of delete_image or of the stale-pending sweep.
C15_OriginalBlobUntouched ==
  [][\A i \in ImageIds :
       /\ (\E w \in Workers : worker'[w] # worker[w])
            => store'[OrigKey(i)] = store[OrigKey(i)]
       /\ (store[OrigKey(i)] # "none"
             /\ store'[OrigKey(i)] # store[OrigKey(i)])
            => /\ store'[OrigKey(i)] = "none"
               /\ \/ reaper.pc = "delete_file" /\ reaper'.pc = "delete_one"
                  \/ client.pc = "delete_file" /\ client'.pc = "delete_one"]_vars

\* a failed and then a successful attempt have run and the original is as
\* it was uploaded
C15_Witness ==
  \E i \in ImageIds :
    /\ images[i].status = "completed"
    /\ images[i].metadata
    /\ images[i].error # "none"
    /\ store[OrigKey(i)] = "valid"
    /\ store[ThumbKey(i)] = "thumb"

\* the association the running iteration of the tag loop writes
CurrentAssoc(w) ==
  [image_id |-> worker[w].image_id,
   tag |-> Lower(CurrentLabel(w).label),
   source |-> "yolo",
   confidence |-> CurrentLabel(w).confidence]

\* the stored record already holds what the terminal update of w will write
SameAsStored(w) ==
  LET me == worker[w]
      doc == images[me.image_id]
  IN /\ doc.metadata
     /\ doc.processed_at
     /\ doc.phash = me.phash
     /\ doc.tag_count = me.tag_count
     /\ me.thumb_key => doc.thumbnail_key

\* C16: an image never has two associations for one label; a run of the tag
\* loop that finds the association it is about to write already stored
\* leaves tags and image_tags as they are, a terminal update that finds its
\* values already stored leaves the record as it is (apart from the status
\* it restores), and after the terminal update every detected label has its
\* association with the detection's confidence and source.
C16_RerunIdempotent ==
  /\ [](\A a, b \in image_tags :
          (a.image_id = b.image_id /\ a.tag = b.tag) => a = b)
  /\ [][\A w \in Workers : \A i \in ImageIds :
          (i = worker[w].image_id)
            => /\ (worker[w].pc = "save_tag"
                     /\ worker'[w].pc \in {"find_tag", "final"}
                     /\ CurrentAssoc(w) \in image_tags)
                    => image_tags' = image_tags /\ tags' = tags
               /\ (worker[w].pc = "final" /\ worker'[w].pc = "idle"
                     /\ crashed' = crashed)
                    => /\ SameAsStored(w)
                            => images'[i] = [images[i] EXCEPT
                                               !.status = "completed"]
                       /\ \A k \in 1..Len(worker[w].unique_labels) :
                            LET d == worker[w].unique_labels[k]
                            IN [image_id |-> i, tag |-> Lower(d.label),
                                source |-> "yolo",
                                confidence |-> d.confidence] \in image_tags']_vars

\* the job ran twice to the end with the same detection: the record is
\* completed with one tag and one association
C16_Witness ==
  \E i \in ImageIds :
    /\ images[i].status = "completed"
    /\ images[i].tag_count = 1
    /\ execs[i] = 2
    /\ failures[i] = 0
    /\ crashed[i] = 0
    /\ Quiescent(i)
    /\ Cardinality({ a \in image_tags : a.image_id = i }) = 1

\* C17: a step that leaves an association for an image and a label in place
\* leaves it with the source and confidence it had: add_custom_tag does not
\* replace a model-sourced entry and process_image does not replace a
\* user-sourced one.
C17_SourcesDoNotCollide ==
  [][\A a \in image_tags :
       (\E b \in image_tags' : b.image_id = a.image_id /\ b.tag = a.tag)
         => a \in image_tags']_vars

\* C19: the countdown of the retry message with retry count k is RetrySeed
\* times k (60, 120, 180), later retries have larger countdowns, and no
\* message carries a retry count above max_retries.
C19_RetryCountdown ==
  \A i \in ImageIds :
    /\ countdown[<< i, 1 >>] \in {0, 60}
    /\ countdown[<< i, 2 >>] \in {0, 120}
    /\ countdown[<< i, 3 >>] \in {0, 180}
    /\ \A k \in Retries :
         /\ (k >= 1 /\ queue[<< i, k >>] > 0)
              => countdown[<< i, k >>] = RetrySeed * k
         /\ k > max_retries
              => queue[<< i, k >>] = 0 /\ countdown[<< i, k >>] = 0
         /\ \A j \in Retries :
              (j < k /\ countdown[<< i, j >>] # 0 /\ countdown[<< i, k >>] # 0)
                => countdown[<< i, j >>] < countdown[<< i, k >>]

C19_Witness ==
  \E i \in ImageIds :
    /\ countdown[<< i, 1 >>] = 60
    /\ countdown[<< i, 2 >>] = 120
    /\ countdown[<< i, 3 >>] = 180
    /\ AllAttemptsFailed(i)

\* the ids of the members of group g of the answer
GroupIds(g) == { dup.groups[g][m].id : m \in 1..Len(dup.groups[g]) }

\* C20: the groups find_duplicates returns are pairwise disjoint and without
\* repeated members, each has at least two members, the members after the
\* first are later images within the threshold of the first (the seed), and
\* a group holds every image after its seed that is within the threshold of
\* the seed and in no earlier group.
C20_GreedySeedExpansion ==
  dup.done =>
    LET G == dup.groups
        L == dup.images
        t == dup.threshold
    IN \A g \in 1..Len(G) :
         /\ Len(G[g]) >= 2
         /\ Cardinality(GroupIds(g)) = Len(G[g])
         /\ \A h \in 1..Len(G) : h # g => GroupIds(g) \cap GroupIds(h) = {}
         /\ \A m \in 1..Len(G[g]) :
              /\ G[g][m].id \in 1..Len(L)
              /\ L[G[g][m].id] = G[g][m]
              /\ m > 1 =>
                   /\ G[g][m].id > G[g][1].id
                   /\ hamming_distance(G[g][1].phash, G[g][m].phash) <= t
         /\ \A j \in 1..Len(L) :
              (/\ j > G[g][1].id
               /\ hamming_distance(G[g][1].phash, L[j].phash) <= t
               /\ \A h \in 1..(g - 1) : j \notin GroupIds(h))
                => j \in GroupIds(g)

\* an answer with two groups, the second seeded by an image that an earlier
\* seed passed over and holding an image close to the first group's member
C20_Witness ==
  /\ dup.done
  /\ Len(dup.groups) = 2
  /\ Len(dup.images) = 4
  /\ dup.threshold = 1
  /\ \E m \in 1..Len(dup.groups[1]), n \in 1..Len(dup.groups[2]) :
       /\ m > 1
       /\ hamming_distance(dup.groups[1][m].phash, dup.groups[2][n].phash)
            <= dup.threshold

\* the ids of the members of a group
IdsOf(group) == { group[m].id : m \in 1..Len(group) }

\* images j and k of the request are members of one returned group
SameGroup(j, k) ==
  \E g \in 1..Len(dup.groups) : {j, k} \subseteq GroupIds(g)

\* the positions of the request's documents that have a phash
Hashed == { k \in 1..Len(dup.images) : dup.images[k].phash # NoHash }

\* C21: in every returned group, every two members are within the threshold
\* of each other.
C21_PairwiseWithinThreshold ==
  dup.done =>
    \A g \in 1..Len(dup.groups) :
      \A m, n \in 1..Len(dup.groups[g]) :
        hamming_distance(dup.groups[g][m].phash, dup.groups[g][n].phash)
          <= dup.threshold

\* C22: two images that are each within the threshold of a third image, and
\* not within the threshold of each other, are returned in one group.
C22_SingleLinkChaining ==
  dup.done =>
    \A a, b, c \in Hashed :
      LET D(x, y) == hamming_distance(dup.images[x].phash, dup.images[y].phash)
      IN (/\ D(a, c) <= dup.threshold
          /\ D(b, c) <= dup.threshold
          /\ D(a, b) > dup.threshold)
           => SameGroup(a, b)

\* C23: every group returned at the request's threshold is contained in a
\* group returned for the same documents at any larger threshold.
C23_ThresholdMonotone ==
  dup.done =>
    \A t2 \in Thresholds :
      t2 >= dup.threshold =>
        LET G2 == find_duplicates(dup.images, t2)
        IN \A g \in 1..Len(dup.groups) :
             \E h \in 1..Len(G2) : GroupIds(g) \subseteq IdsOf(G2[h])

\* the list without its k-th document
RemoveAt(seq, k) == SubSeq(seq, 1, k - 1) \o SubSeq(seq, k + 1, Len(seq))

\* C24: no document without a phash is a member of a returned group, and
\* the groups are those returned when such a document is not there.
C24_UnhashedExcluded ==
  dup.done =>
    /\ \A g \in 1..Len(dup.groups) : GroupIds(g) \subseteq Hashed
    /\ \A k \in 1..Len(dup.images) :
         k \notin Hashed
           => find_duplicates(RemoveAt(dup.images, k), dup.threshold)
                = dup.groups

\* a document without a phash stands between the two members of the group
C24_Witness ==
  /\ dup.done
  /\ Len(dup.images) = 3
  /\ 2 \notin Hashed
  /\ Len(dup.groups) = 1
  /\ GroupIds(1) = {1, 3}

\* C25: with threshold 0 two hashed images are in one group exactly when
\* their phashes are equal.
C25_ZeroThresholdIdentical ==
  (dup.done /\ dup.threshold = 0) =>
    \A j, k \in Hashed :
      j # k => (SameGroup(j, k) <=> dup.images[j].phash = dup.images[k].phash)

\* two interleaved pairs of equal hashes answered with two groups
C25_Witness ==
  /\ dup.done
  /\ dup.threshold = 0
  /\ Len(dup.images) = 4
  /\ Len(dup.groups) = 2
  /\ GroupIds(1) = {1, 3}
  /\ GroupIds(2) = {2, 4}

\* the sum of f over a finite set
SumOver(S, f(_)) ==
  LET RECURSIVE Sum(_)
      Sum(T) == IF T = {} THEN 0
                ELSE LET x == CHOOSE y \in T : TRUE
                     IN f(x) + Sum(T \ {x})
  IN Sum(S)

\* C26: the score of a returned group is the mean of 1 - distance/64 over
\* the unordered pairs of its members, rounded to 3 decimals (held in
\* thousandths); a group of two whose hashes differ in 3 bits scores 0.953.
C26_MeanPairwiseSimilarity ==
  dup.done =>
    /\ Len(dup.scores) = Len(dup.groups)
    /\ \A g \in 1..Len(dup.groups) :
         LET G == dup.groups[g]
             P == { p \in (1..Len(G)) \X (1..Len(G)) : p[1] < p[2] }
             Sim(p) == max_distance
                         - hamming_distance(G[p[1]].phash, G[p[2]].phash)
         IN /\ dup.scores[g]
                 = RoundHalfEven(1000 * SumOver(P, Sim),
                                 max_distance * Cardinality(P))
            /\ (Len(G) = 2 /\ hamming_distance(G[1].phash, G[2].phash) = 3)
                 => dup.scores[g] = 953

C26_Witness ==
  /\ dup.done
  /\ dup.threshold = DefaultThreshold
  /\ Len(dup.groups) = 1
  /\ Len(dup.groups[1]) = 2
  /\ hamming_distance(dup.groups[1][1].phash, dup.groups[1][2].phash) = 3
  /\ dup.scores[1] = 953

\* the positions << digit, bit >> in which two hashes of one width differ
DifferingBits(h1, h2) ==
  { p \in (1..Len(h1)) \X (0..3) :
      (h1[p[1]] \div (2 ^ p[2])) % 2 # (h2[p[1]] \div (2 ^ p[2])) % 2 }

\* C27: for two hashes of the same width hamming_distance gives the same
\* value in both argument orders, that value is the number of bits in which
\* they differ, and it is 0 for a hash and itself.
C27_DistanceSymmetric ==
  (call.done /\ call.op = "compare" /\ Len(call.hash1) = Len(call.hash2))
    => /\ call.distance = hamming_distance(call.hash2, call.hash1)
       /\ call.distance = Cardinality(DifferingBits(call.hash1, call.hash2))
       /\ call.hash1 = call.hash2 => call.distance = 0
       /\ hamming_distance(call.hash1, call.hash1) = 0

C27_Witness ==
  /\ call.done
  /\ call.op = "compare"
  /\ call.hash1 = << 0, 0, 0, 1 >>
  /\ call.hash2 = << 15, 15, 15, 15 >>
  /\ call.distance = 15

\* C28: comparing hashes of different widths raises to the caller and
\* returns no number.
C28_IncompatibleHashRaised ==
  (call.done /\ call.op = "compare" /\ Len(call.hash1) # Len(call.hash2))
    => call.raised /\ call.distance \notin Nat

\* C29: the similarity score of every pair of hash strings lies in [0, 1]
\* (the score is held as its numerator over max_distance).
C29_SimilarityInUnitInterval ==
  (call.done /\ call.op = "compare")
    => call.similarity >= 0 /\ call.similarity <= max_distance

\* the confidences the detections give a label
ConfidencesOf(detections, label) ==
  { detections[k].confidence :
      k \in { n \in 1..Len(detections) : detections[n].label = label } }

\* C30: extract_unique_labels returns one entry for each label that occurs
\* in the detections and no other, with the largest confidence of the label,
\* in descending order of confidence; a label detected at 0.3, 0.9 and 0.5
\* is returned once at 0.9.
C30_UniqueLabelsMaxConfidence ==
  (call.done /\ call.op = "labels")
    => LET D == call.detections
           R == call.unique_labels
       IN /\ { R[k].label : k \in 1..Len(R) }
               = { D[k].label : k \in 1..Len(D) }
          /\ \A j, k \in 1..Len(R) : R[j].label = R[k].label => j = k
          /\ \A k \in 1..Len(R) :
               /\ R[k].confidence \in ConfidencesOf(D, R[k].label)
               /\ \A c \in ConfidencesOf(D, R[k].label) : c <= R[k].confidence
          /\ \A k \in 1..(Len(R) - 1) : R[k].confidence >= R[k + 1].confidence
          /\ D = << [label |-> "cat", confidence |-> 300],
                    [label |-> "cat", confidence |-> 900],
                    [label |-> "cat", confidence |-> 500] >>
               => R = << [label |-> "cat", confidence |-> 900] >>

C30_Witness ==
  /\ call.done
  /\ call.op = "labels"
  /\ call.detections = << [label |-> "cat", confidence |-> 300],
                          [label |-> "cat", confidence |-> 900],
                          [label |-> "cat", confidence |-> 500] >>
  /\ call.unique_labels = << [label |-> "cat", confidence |-> 900] >>

\* C33: once the record of an image has been deleted and every job for the
\* image has ended, no tag association names the image and its thumbnail
\* blob is gone.
C33_NothingDerivedRemains ==
  \A i \in ImageIds :
    (i < nextId /\ ~Exists(i) /\ Quiescent(i)
       /\ client.pc = "idle" /\ reaper.pc = "idle")
      => /\ \A a \in image_tags : a.image_id # i
         /\ store[ThumbKey(i)] = "none"

\* C34: a find-or-create of a tag name that another caller inserts in the
\* meantime ends without a failure of the job: no attempt of process_image
\* is ended by the unique index on the tag name.
C34_ConcurrentTagCreationSucceeds ==
  \A w \in Workers : worker[w].exc # "duplicate_key"

\* C35: a record that is completed by a retry after an earlier attempt
\* failed (each message delivered once, no worker lost) carries no error
\* message.
C35_CompletedHasNoError ==
  \A i \in ImageIds :
    (images[i].status = "completed" /\ failures[i] > 0
       /\ redelivered[i] = 0 /\ crashed[i] = 0)
      => images[i].error = "none"

\* C37: upload_images is all-or-nothing for each file: a file listed in the
\* response has a stored blob, a pending record and a queued job; a file
\* the response does not list has left neither a blob nor a record.
C37_UploadAllOrNothing ==
  [][\A i \in ImageIds :
       (uploaded_images[i] = "none" /\ uploaded_images'[i] # "none")
         => IF uploaded_images'[i] = "listed"
            THEN /\ store'[OrigKey(i)] # "none"
                 /\ images'[i].status = "pending"
                 /\ queue'[<< i, 0 >>] = queue[<< i, 0 >>] + 1
            ELSE /\ store'[OrigKey(i)] = "none"
                 /\ ~Exists(i)']_vars

\* the database with the records of every user but user_id taken out: their
\* images with the associations of those images, their albums with the rows
\* of those albums (tag documents carry no owner and stay)
OwnView(db, user_id) ==
  [db EXCEPT
     !.images = [i \in RecordIds |->
                   IF db.images[i].user_id = user_id THEN db.images[i]
                   ELSE NoImage],
     !.image_tags = { e \in @ : db.images[e[1]].user_id = user_id },
     !.albums = [a \in AlbumIds |->
                   IF db.albums[a] = user_id THEN user_id ELSE "none"],
     !.album_images = [e \in AlbumIds \X RecordIds |->
                         IF db.albums[e[1]] = user_id THEN @[e] ELSE 0]]

OwnedBy(db, user_id, ids) == \A i \in ids : db.images[i].user_id = user_id

\* C31: every image record that get_image, list_images, get_image_url,
\* search_images, find_duplicates or get_album_images returns to a user is
\* owned by that user, and each of these reads returns what it would return
\* if the records of the other users were not there.
C31_ReadsAreOwnRecords ==
  \A u \in Users :
    LET V == OwnView(shared, u)
    IN /\ OwnedBy(shared, u, list_images(shared, u))
       /\ list_images(shared, u) = list_images(V, u)
       /\ OwnedBy(shared, u, find_duplicates_query(shared, u))
       /\ find_duplicates_query(shared, u) = find_duplicates_query(V, u)
       /\ \A i \in RecordIds :
            /\ OwnedBy(shared, u, get_image(shared, u, i))
            /\ get_image(shared, u, i) = get_image(V, u, i)
            /\ get_image_url_as(shared, u, i) # {}
                 => shared.images[i].user_id = u
            /\ get_image_url_as(shared, u, i) = get_image_url_as(V, u, i)
       /\ \A names \in SearchTags :
            /\ OwnedBy(shared, u, search_images(shared, u, names))
            /\ search_images(shared, u, names) = search_images(V, u, names)
       /\ \A a \in AlbumIds :
            /\ OwnedBy(shared, u, get_album_images(shared, u, a))
            /\ get_album_images(shared, u, a) = get_album_images(V, u, a)

\* two users each have a completed image tagged cat, and one of them has
\* the own image in an album and finds it by searching for the tag
C31_Witness ==
  /\ shared.images[1].user_id = "bob"
  /\ shared.images[1].status = "completed"
  /\ shared.images[1].phash
  /\ << 1, "cat" >> \in shared.image_tags
  /\ shared.images[2].user_id = "alice"
  /\ shared.images[2].status = "completed"
  /\ << 2, "cat" >> \in shared.image_tags
  /\ shared.albums[1] = "alice"
  /\ get_album_images(shared, "alice", 1) = {2}
  /\ search_images(shared, "alice", {"Cat"}) = {2}
  /\ list_images(shared, "bob") = {1}

\* C32: the key get_image_url signs for a user is not the storage_key of a
\* record of another user.
C32_NoForeignBlobSigned ==
  \A u \in Users : \A i, j \in RecordIds :
    \A k \in get_image_url_as(shared, u, i) :
      shared.images[j].storage_key = k => shared.images[j].user_id = u

\* C36: with a tag filter, search_images returns only completed images of
\* the caller that carry at least one of the named tags.
C36_SearchReturnsTaggedOnly ==
  \A u \in Users : \A names \in SearchTags \ {{}} :
    \A i \in search_images(shared, u, names) :
      /\ shared.images[i].user_id = u
      /\ shared.images[i].status = "completed"
      /\ \E t \in names : << i, Lower(t) >> \in shared.image_tags

\* C38: an album holds each image at most once, only images of its owner,
\* and its image_count is the number of images get_album_images returns.
C38_AlbumCountMatchesImages ==
  \A u \in Users : \A a \in AlbumIds :
    shared.albums[a] = u
      => /\ \A i \in RecordIds : shared.album_images[<< a, i >>] <= 1
         /\ OwnedBy(shared, u, get_album_images(shared, u, a))
         /\ get_album(shared, u, a)
              = Cardinality(get_album_images(shared, u, a))

====
